---- MODULE Spec2Model ----
(***************************************************************************)
(* Model of the FastAPI gateway of Bitcoin Sprint                          *)
(* (src/Bitcoin_Sprint_fastapi/fastapi-gateway/main.py): authentication of *)
(* a request by API key or bearer token, the per-principal fixed-window    *)
(* rate limiter kept in Redis, and the proxy call to the backend.          *)
(*                                                                         *)
(* Every request is a coroutine; an action of the model is the code that   *)
(* runs between two suspension points (await) of one coroutine.  Time is   *)
(* counted in seconds and advances in steps of TickSeconds.                *)
(***************************************************************************)
EXTENDS Integers, FiniteSets, Sequences, TLC

(* ------------------------------ bounds -------------------------------- *)
\* seconds that pass in one Tick step
TickSeconds == 30
\* the clock stops advancing here (every expires_at of the model is smaller)
MaxNow == 30
\* a rate counter that starts from an empty key is not incremented beyond this
MaxCount == 12
\* a rate counter is followed from just below its limit to limit + MaxOver
MaxOver == 2
\* request coroutines in flight at the same time
Reqs == {"r1", "r2"}

(* ------------------------- program constants -------------------------- *)
\* tier_limits of proxy_all_requests and the default of tier_limits.get
tier_limits == [free |-> 10, pro |-> 100, enterprise |-> 1000]
default_limit == 10
\* redis_client.expire(key, 60)
rate_window == 60

\* a missing header (request.headers.get returns None, which is falsy)
NoKey == ""
NoToken == ""
\* Optional[...] values are sets: {} is None, {x} is x
NoneOpt == {}

(* ------------------------- the credential store ----------------------- *)
\* expires_at of a record is a time in seconds on the model's clock, which
\* starts at 0: -1 is in the past from the start, 15 is passed during a run

\* What GET api_key:{key} finds in Redis.  A key outside the domain has no
\* record; decodes = FALSE is a value that json.loads or APIKey(**data)
\* rejects.
api_key_records ==
  [ k_free    |-> [name |-> "a", tier |-> "free", rate_limit |-> 100,
                   enabled |-> TRUE, expires_at |-> NoneOpt, decodes |-> TRUE],
    k_ent     |-> [name |-> "e", tier |-> "enterprise", rate_limit |-> 5,
                   enabled |-> TRUE, expires_at |-> {15}, decodes |-> TRUE],
    k_gold    |-> [name |-> "g", tier |-> "gold", rate_limit |-> 100,
                   enabled |-> TRUE, expires_at |-> NoneOpt, decodes |-> TRUE],
    k_off     |-> [name |-> "b", tier |-> "pro", rate_limit |-> 100,
                   enabled |-> FALSE, expires_at |-> NoneOpt, decodes |-> TRUE],
    k_old     |-> [name |-> "c", tier |-> "pro", rate_limit |-> 100,
                   enabled |-> TRUE, expires_at |-> {-1}, decodes |-> TRUE],
    k_offold  |-> [name |-> "d", tier |-> "free", rate_limit |-> 100,
                   enabled |-> FALSE, expires_at |-> {-1}, decodes |-> TRUE],
    k_garbage |-> [name |-> "x", tier |-> "free", rate_limit |-> 100,
                   enabled |-> TRUE, expires_at |-> NoneOpt, decodes |-> FALSE] ]

\* API keys a client may present (header X-API-Key or query api_key)
AllKeys == {NoKey, "k_unknown"} \cup DOMAIN api_key_records

\* Bearer tokens a client may present: whether the signature verifies with
\* settings.secret_key, whether exp has passed, the sub claim, a tier claim
bearer_tokens ==
  [ t_alice   |-> [sig_ok |-> TRUE,  expired |-> FALSE, sub |-> {"alice"},
                   tier |-> NoneOpt],
    t_clash   |-> [sig_ok |-> TRUE,  expired |-> FALSE, sub |-> {"api_key_a"},
                   tier |-> {"enterprise"}],
    t_badsig  |-> [sig_ok |-> FALSE, expired |-> FALSE, sub |-> {"alice"},
                   tier |-> NoneOpt],
    t_expired |-> [sig_ok |-> TRUE,  expired |-> TRUE,  sub |-> {"alice"},
                   tier |-> NoneOpt],
    t_nosub   |-> [sig_ok |-> TRUE,  expired |-> FALSE, sub |-> NoneOpt,
                   tier |-> NoneOpt] ]

\* values of the Authorization header: "Bearer " followed by the token
AllTokens == {NoToken} \cup DOMAIN bearer_tokens

BackendStatuses == {200, 429}

(* ------------------------------ the users ----------------------------- *)
\* Optional[User]: NoUser is None
NoUser == [username |-> "", tier |-> ""]

\* variant: the tier of the record is not copied (User.tier defaults to free)
APIKeyUser_default_tier(key_info) ==
  [username |-> "api_key_" \o key_info.name, tier |-> "free"]

\* User(username=f"api_key_{key_info.name}", tier=key_info.tier)
APIKeyUser(key_info) ==
  [username |-> "api_key_" \o key_info.name, tier |-> key_info.tier]

\* get_current_user: User(username=token_data.username, ..., tier="pro")
TokenUser(username) == [username |-> username, tier |-> "pro"]

\* every username that authentication can produce; each has the Redis key
\* rate_limit:{username}
Usernames ==
  {APIKeyUser(api_key_records[k]).username : k \in DOMAIN api_key_records}
  \cup UNION {bearer_tokens[t].sub : t \in DOMAIN bearer_tokens}

Tiers == {"free", "pro", "enterprise", "gold"}

\* tier_limits.get(user.tier, 10)
TierLimit(tier) ==
  IF tier \in DOMAIN tier_limits THEN tier_limits[tier] ELSE default_limit

(* ------------------------------ HTTP input ---------------------------- *)
\* header lines a request or a backend response carries at most
MaxHeaders == 2
\* failed health polls in a row are counted up to this
MaxFailed == 3
MaxFrames == 1

\* methods a client may use; TRACE is in no route's methods
Methods == {"GET", "POST", "TRACE"}

\* request paths without the leading slash, as the path parameter holds them
Paths == {"health", "metrics", "auth/login", "v1/status"}

\* hop_by_hop_headers of proxy_request
hop_by_hop_headers ==
  {"connection", "keep-alive", "proxy-authenticate", "proxy-authorization",
   "te", "trailers", "transfer-encoding", "upgrade"}

\* Header lines <<name, value>> of an inbound request besides the
\* credentials; the ASGI server hands the names over in lower case.
InboundLines ==
  { <<"connection", "close">>, <<"accept", "a">>, <<"accept", "b">>,
    <<"x-user-tier", "enterprise">> }

\* header lines of a backend response; httpx hands the names over in lower case
BackendLines ==
  { <<"upgrade", "h2c">>, <<"set-cookie", "a">>, <<"set-cookie", "b">> }

\* the header lists of at most n lines
HeaderLists(lines, n) == UNION {[1..k -> lines] : k \in 0..n}

\* A Python dict is the sequence of its <<key, value>> items in insertion
\* order, the keys distinct.
Keys(d) == {d[i][1] : i \in DOMAIN d}

\* d[key]
GetItem(d, key) == d[CHOOSE i \in DOMAIN d : d[i][1] = key][2]

\* d[key] = value
SetItem(d, key, value) ==
  IF key \in Keys(d)
  THEN [i \in DOMAIN d |-> IF d[i][1] = key THEN <<key, value>> ELSE d[i]]
  ELSE Append(d, <<key, value>>)

\* d.pop(key, None)
Pop(d, key) == SelectSeq(d, LAMBDA item : item[1] # key)

\* dict(request.headers): starlette's Headers lists a repeated name once per
\* line and its __getitem__ returns the value of the first line of that name
RECURSIVE RequestHeadersDict(_)
RequestHeadersDict(lines) ==
  IF lines = <<>> THEN <<>>
  ELSE LET d == RequestHeadersDict(SubSeq(lines, 1, Len(lines) - 1))
           last == lines[Len(lines)]
       IN IF last[1] \in Keys(d) THEN d ELSE Append(d, last)

\* dict(response.headers): httpx's Headers lists each name once and its
\* __getitem__ joins the values of the lines of that name with ", "
RECURSIVE ResponseHeadersDict(_)
ResponseHeadersDict(lines) ==
  IF lines = <<>> THEN <<>>
  ELSE LET d == ResponseHeadersDict(SubSeq(lines, 1, Len(lines) - 1))
           last == lines[Len(lines)]
       IN IF last[1] \in Keys(d)
          THEN SetItem(d, last[1], GetItem(d, last[1]) \o ", " \o last[2])
          ELSE Append(d, last)

\* for header in hop_by_hop_headers: headers.pop(header, None)
PopHopByHop(d) == SelectSeq(d, LAMBDA item : item[1] \notin hop_by_hop_headers)

\* header names are case-insensitive on the wire
Lower(name) ==
  IF name = "X-User-Tier" THEN "x-user-tier"
  ELSE IF name = "X-User-Username" THEN "x-user-username"
  ELSE name

\* the header lines a peer receives for the items of dict d
OnWire(d) == [i \in DOMAIN d |-> <<Lower(d[i][1]), d[i][2]>>]


(* ------------------------------- routing ------------------------------ *)
\* The routes in the order the decorators register them.  any = TRUE is the
\* pattern /{path:path}, which matches every path.
routes ==
  << [any |-> FALSE, path |-> "health", methods |-> {"GET"},
      endpoint |-> "health_check"],
     [any |-> FALSE, path |-> "metrics", methods |-> {"GET"},
      endpoint |-> "metrics"],
     [any |-> FALSE, path |-> "auth/login", methods |-> {"POST"},
      endpoint |-> "login"],
     [any |-> TRUE, path |-> "", methods |->
        {"GET", "POST", "PUT", "DELETE", "PATCH", "OPTIONS", "HEAD"},
      endpoint |-> "proxy_all_requests"] >>

\* The router serves a request by the first route whose path and method
\* both match; when only paths match the answer is 405 Method Not Allowed.
Route(method, path) ==
  LET full == {i \in DOMAIN routes :
                 /\ routes[i].any \/ routes[i].path = path
                 /\ method \in routes[i].methods}
  IN IF full # {}
     THEN routes[CHOOSE i \in full : \A j \in full : i <= j].endpoint
     ELSE "method_not_allowed"

\* what check_backend_health returns
HealthStates == {"healthy", "unhealthy", "unreachable"}

VARIABLES
  started,       \* lifespan startup has run
  redis_client,  \* the global redis_client is set (not None)
  store_up,      \* the Redis server answers
  now,           \* datetime.utcnow(), seconds
  rate_count,    \* Redis: value of rate_limit:{username}, 0 = no such key
  rate_ttl,      \* Redis: seconds to live of that key, 0 = no expiry set
  pc,            \* per request: where the coroutine is suspended
  req,           \* per request: credentials presented and resolved user
  out,           \* per request: the outcome returned to the caller
  calls,         \* per request: backend calls issued
  win_left,      \* per username: seconds left of the 60 s window that began
                 \*   when the limiter had counted the first request after
                 \*   the previous window
  win_seen,      \* per username: requests counted by the limiter in that window
  hits,          \* per username: INCR commands executed on the current key
  admitted,      \* per username and tier: requests admitted on the current key
  http,          \* per request: method, path and header lines received, and
                 \*   the header lines the backend answers this caller with
  upstream,      \* per request: the backend call: headers sent, what came back
  reply,         \* per request: headers and backend_status field returned
  REQUEST_COUNT, \* per request: status labels of its REQUEST_COUNT....inc()
  backend_status,\* the global backend_status
  poll_pc,       \* where the task update_backend_status is suspended
  last_probe,    \* what the most recent probe of the backend met
  failed_polls,  \* probes in a row, up to now, that did not reach the backend
  ws,            \* per WebSocket connection: where connect is suspended, the
                 \*   two legs, and the frames sent and delivered
  active_connections,  \* ws_proxy.active_connections
  ACTIVE_CONNECTIONS   \* the gauge active_connections

health_vars == <<backend_status, poll_pc, last_probe, failed_polls>>
http_vars == <<http, upstream, reply, REQUEST_COUNT>>
ws_vars == <<ws, active_connections, ACTIVE_CONNECTIONS>>

vars == <<started, redis_client, store_up, now, rate_count, rate_ttl,
          pc, req, out, calls, win_left, win_seen, hits, admitted,
          http, upstream, reply, REQUEST_COUNT, backend_status, poll_pc,
          last_probe, failed_polls, ws, active_connections,
          ACTIVE_CONNECTIONS>>

\* a request: the X-API-Key and Authorization header values and, once
\* authenticated, the user
NoReq == [api_key |-> NoKey, token |-> NoToken, user |-> NoUser]
NoOut == [kind |-> "none", status |-> 0]
HTTPException(status_code) == [kind |-> "HTTPException", status |-> status_code]
BackendResponse(status_code) == [kind |-> "response", status |-> status_code]
\* the response of an endpoint of the gateway itself
LocalResponse(status_code) == [kind |-> "local", status |-> status_code]

NoHttp == [method |-> "GET", path |-> "v1/status", headers |-> <<>>,
           backend_headers |-> <<>>]
NoUpstream == [sent |-> <<>>, result |-> "none", headers |-> <<>>]
\* polls_failed: the value of failed_polls when the health endpoint answered
NoReply == [headers |-> <<>>, backend_status |-> "", polls_failed |-> 0]
NoProbe == [kind |-> "none", status |-> 0]

\* the WebSocket connections that clients open
Conns == {"w1", "w2"}

\* a connection that no client has opened yet
NoConn ==
  [pc |-> "idle", tier_header |-> "", answer |-> NoProbe, relayed |-> FALSE,
   error_frame |-> FALSE, client_open |-> FALSE, client_left |-> FALSE,
   backend_open |-> FALSE, cancelled |-> FALSE,
   client_sent |-> 0, backend_sent |-> 0, to_backend |-> 0, to_client |-> 0,
   incs |-> 0, decs |-> 0]

Returned(user) == [raised |-> 0, user |-> user]
Raised(status_code) == [raised |-> status_code, user |-> NoUser]

(* --------------------------- authentication --------------------------- *)
\* variant: a key that is not stored yields a record of defaults
validate_api_key_unknown_default(api_key) ==
  IF ~redis_client THEN NoneOpt
  ELSE IF ~store_up THEN NoneOpt
  ELSE IF api_key \notin DOMAIN api_key_records
    THEN {[name |-> "x", tier |-> "free", rate_limit |-> 100, enabled |-> TRUE,
           expires_at |-> NoneOpt, decodes |-> TRUE]}
  ELSE IF ~api_key_records[api_key].decodes THEN NoneOpt
  ELSE {api_key_records[api_key]}

\* variant: the stored record is returned whatever the state of the store
\* and of the value
validate_api_key_ignores_failure(api_key) ==
  IF api_key \notin DOMAIN api_key_records THEN NoneOpt
  ELSE {api_key_records[api_key]}

\* validate_api_key: the decoded record, or None when there is no client,
\* the read fails, the key is not stored or the value does not decode
validate_api_key(api_key) ==
  IF ~redis_client THEN NoneOpt
  ELSE IF ~store_up THEN NoneOpt
  ELSE IF api_key \notin DOMAIN api_key_records THEN NoneOpt
  ELSE IF ~api_key_records[api_key].decodes THEN NoneOpt
  ELSE {api_key_records[api_key]}

\* variant: the expiry of a record is not looked at
KeyExpired_never(key_info) == FALSE

\* key_info.expires_at and datetime.utcnow() > key_info.expires_at
KeyExpired(key_info) == \E t \in key_info.expires_at : now > t

\* get_current_user: jwt.decode raises JWTError on a bad signature or an
\* expired token; a payload without sub raises credentials_exception
get_current_user(token) ==
  LET payload == bearer_tokens[token] IN
    IF ~payload.sig_ok \/ payload.expired THEN Raised(401)
    ELSE IF payload.sub = NoneOpt THEN Raised(401)
    ELSE Returned(TokenUser(CHOOSE username \in payload.sub : TRUE))

\* the JWT fallback of authenticate_request: try ... except Exception: pass
BearerFallback(token) ==
  IF token # NoToken
  THEN LET res == get_current_user(token) IN
         IF res.raised # 0 THEN Returned(NoUser) ELSE res
  ELSE Returned(NoUser)

\* variant: the bearer token is tried before the API key
authenticate_request_token_first(api_key, token) ==
  LET bearer == BearerFallback(token)
      found == IF api_key # NoKey THEN validate_api_key(api_key) ELSE NoneOpt
      usable == {key_info \in found : key_info.enabled}
  IN IF bearer.user # NoUser THEN bearer
     ELSE IF usable # {}
     THEN LET key_info == CHOOSE k \in usable : TRUE IN
            IF KeyExpired(key_info) THEN Raised(401)
            ELSE Returned(APIKeyUser(key_info))
     ELSE Returned(NoUser)

\* authenticate_request: the user, None (NoUser), or HTTPException(401)
authenticate_request(api_key, token) ==
  LET found == IF api_key # NoKey THEN validate_api_key(api_key) ELSE NoneOpt
      usable == {key_info \in found : key_info.enabled}
  IN IF usable # {}
     THEN LET key_info == CHOOSE k \in usable : TRUE IN
            IF KeyExpired(key_info) THEN Raised(401)
            ELSE Returned(APIKeyUser(key_info))
     ELSE BearerFallback(token)

(* ------------------------------ the store ----------------------------- *)
\* INCR rate_limit:{username}: the new value
RedisIncr(count) == count + 1

\* variant: one request too many passes
OverLimit_one_more(current, limit) == current > limit + 1

\* current > limit
OverLimit(current, limit) == current > limit

\* the home tier of a username: the tier of the credential that names it
HomeTier(username) ==
  LET recs == {k \in DOMAIN api_key_records :
                 APIKeyUser(api_key_records[k]).username = username}
  IN IF recs # {} THEN api_key_records[CHOOSE k \in recs : TRUE].tier
     ELSE "pro"

HomeLimit(username) == TierLimit(HomeTier(username))

\* the counters the model follows: from an empty key up to max, and from
\* just below the limit to MaxOver above it
InBand(username, count, max) ==
  \/ count < max
  \/ /\ count >= HomeLimit(username) - 1
     /\ count < HomeLimit(username) + MaxOver

(* -------------------------------- Init -------------------------------- *)
\* counters of the store when the process starts: none, or the counter of
\* one of the usernames S standing just below its limit
SeedCounts(S) ==
  {[u \in Usernames |-> 0]} \cup
  {[u \in Usernames |-> IF u = s THEN HomeLimit(s) - 1 ELSE 0] : s \in S}

\* The gateway process has just been constructed: no request is in flight.
\* Redis outlives the process, so a counter may already stand just below
\* its limit with its expiry pending, left there by earlier admitted traffic.
\* Each request slot r of R is a caller that presents the same API key of K
\* and the same Authorization header of B with every request it makes.
InitWith(S, R, K, B) ==
  /\ started = FALSE
  /\ redis_client = FALSE
  /\ store_up \in BOOLEAN
  /\ now = 0
  /\ rate_count \in SeedCounts(S)
  /\ rate_ttl = [u \in Usernames |-> IF rate_count[u] > 0 THEN rate_window ELSE 0]
  /\ pc = [r \in Reqs |-> "idle"]
  /\ req \in [Reqs -> [api_key : K \cup {NoKey}, token : B \cup {NoToken},
                        user : {NoUser}]]
  /\ \A r \in Reqs : IF r \in R THEN req[r].api_key \in K /\ req[r].token \in B
                                ELSE req[r] = NoReq
  /\ out = [r \in Reqs |-> NoOut]
  /\ calls = [r \in Reqs |-> 0]
  /\ win_left = rate_ttl
  /\ win_seen = rate_count
  /\ hits = rate_count
  /\ admitted = [u \in Usernames |->
                   [t \in Tiers |-> IF t = HomeTier(u) THEN rate_count[u] ELSE 0]]

\* Each caller r of R sends every request with the same method of M, path
\* of P and header lines of H, and the backend answers it with the header
\* lines of HB.  backend_status = "unknown" is the module-level assignment;
\* the polling task does not exist before startup.
InitHttp(R, M, P, H, HB) ==
  /\ http \in [Reqs -> [method : M \cup {NoHttp.method},
                         path : P \cup {NoHttp.path},
                         headers : H \cup {NoHttp.headers},
                         backend_headers : HB \cup {NoHttp.backend_headers}]]
  /\ \A r \in Reqs :
       IF r \in R
       THEN /\ http[r].method \in M /\ http[r].path \in P
            /\ http[r].headers \in H /\ http[r].backend_headers \in HB
       ELSE http[r] = NoHttp
  /\ upstream = [r \in Reqs |-> NoUpstream]
  /\ reply = [r \in Reqs |-> NoReply]
  /\ REQUEST_COUNT = [r \in Reqs |-> <<>>]
  /\ backend_status = "unknown"
  /\ poll_pc = "off"
  /\ last_probe = NoProbe
  /\ failed_polls = 0
  /\ ws = [c \in Conns |-> NoConn]
  /\ active_connections = <<>>
  /\ ACTIVE_CONNECTIONS = 0

(* ------------------------------ lifespan ------------------------------ *)
\* startup: redis.from_url, ping; on failure redis_client = None; then
\* asyncio.create_task(update_backend_status())
Startup ==
  /\ ~started
  /\ started' = TRUE
  /\ redis_client' = store_up
  /\ poll_pc' = "check"
  /\ UNCHANGED <<ws_vars, store_up, now, rate_count, rate_ttl, pc, req, out, calls,
                 win_left, win_seen, hits, admitted, http_vars, backend_status,
                 last_probe, failed_polls>>

(* --------------------------- the environment -------------------------- *)
\* the Redis server stops answering
StoreFail ==
  /\ store_up
  /\ store_up' = FALSE
  /\ UNCHANGED <<ws_vars, started, redis_client, now, rate_count, rate_ttl, pc, req,
                 out, calls, win_left, win_seen, hits, admitted,
                 http_vars, health_vars>>

\* the Redis server answers again; its data is still there
StoreRecover ==
  /\ ~store_up
  /\ store_up' = TRUE
  /\ UNCHANGED <<ws_vars, started, redis_client, now, rate_count, rate_ttl, pc, req,
                 out, calls, win_left, win_seen, hits, admitted,
                 http_vars, health_vars>>

Min(a, b) == IF a < b THEN a ELSE b
Max(a, b) == IF a > b THEN a ELSE b

\* a key whose time to live runs out is deleted by Redis
Expiring(u) == rate_ttl[u] > 0 /\ rate_ttl[u] <= TickSeconds

\* TickSeconds pass
Tick ==
  /\ now' = Min(now + TickSeconds, MaxNow)
  /\ rate_ttl' = [u \in Usernames |-> Max(rate_ttl[u] - TickSeconds, 0)]
  /\ rate_count' = [u \in Usernames |-> IF Expiring(u) THEN 0 ELSE rate_count[u]]
  /\ hits' = [u \in Usernames |-> IF Expiring(u) THEN 0 ELSE hits[u]]
  /\ admitted' = [u \in Usernames |->
                    IF Expiring(u) THEN [t \in Tiers |-> 0] ELSE admitted[u]]
  /\ win_left' = [u \in Usernames |-> Max(win_left[u] - TickSeconds, 0)]
  /\ win_seen' = [u \in Usernames |-> IF win_left'[u] = 0 THEN 0 ELSE win_seen[u]]
  /\ UNCHANGED <<ws_vars, started, redis_client, store_up, pc, req, out, calls,
                 http_vars, health_vars>>

(* ---------------------------- the requests ---------------------------- *)
\* The window of a username when the limiter has counted one more request:
\* a request is counted when its limiter calls are over, which is the INCR
\* for current > 1 and the end of await expire for current = 1.
MeetLimiter(u) ==
  /\ win_left' = [win_left EXCEPT ![u] = IF win_left[u] = 0 THEN rate_window ELSE @]
  /\ win_seen' = [win_seen EXCEPT ![u] = IF win_left[u] = 0 THEN 1 ELSE @ + 1]

\* the request ends with this outcome
Respond(r, outcome) ==
  /\ pc' = [pc EXCEPT ![r] = "done"]
  /\ out' = [out EXCEPT ![r] = outcome]

\* REQUEST_COUNT.labels(method, endpoint, status).inc() while serving r
Count(r, status) == REQUEST_COUNT' = [REQUEST_COUNT EXCEPT ![r] = Append(@, status)]

\* proxy_all_requests after the counter is known: if current > limit count
\* a 429 and raise HTTPException(429), else go on to proxy_request
Decide(r, current) ==
  LET user == req[r].user IN
    IF OverLimit(current, TierLimit(user.tier))
    THEN /\ Respond(r, HTTPException(429))
         /\ Count(r, 429)
         /\ UNCHANGED admitted
    ELSE /\ pc' = [pc EXCEPT ![r] = "proxy"]
         /\ admitted' = [admitted EXCEPT ![user.username][user.tier] = @ + 1]
         /\ UNCHANGED <<out, REQUEST_COUNT>>

\* A request arrives that the router gives to proxy_all_requests, and the
\* dependency authenticate_request runs.  A 401 ends the request; otherwise
\* proxy_all_requests starts: with a user and a redis_client it goes to the
\* limiter, else straight to proxy_request.
Authenticate(r) ==
  /\ started
  /\ pc[r] = "idle"
  /\ Route(http[r].method, http[r].path) = "proxy_all_requests"
  /\ LET res == authenticate_request(req[r].api_key, req[r].token) IN
       /\ req' = [req EXCEPT ![r].user = res.user]
       /\ IF res.raised # 0
          THEN Respond(r, HTTPException(res.raised))
          ELSE /\ pc' = [pc EXCEPT ![r] =
                          IF res.user # NoUser /\ redis_client THEN "limit"
                          ELSE "proxy"]
               /\ UNCHANGED out
  /\ UNCHANGED <<ws_vars, started, redis_client, store_up, now, rate_count, rate_ttl,
                 calls, win_left, win_seen, hits, admitted,
                 http_vars, health_vars>>

\* current = await redis_client.incr(key).  The call raises when the store
\* does not answer, and except Exception turns that into a 500.  When
\* current is 1 the coroutine goes on to await expire; otherwise the limit
\* is compared without another suspension.
Incr(r, max) ==
  /\ pc[r] = "limit"
  /\ LET u == req[r].user.username IN
       /\ InBand(u, rate_count[u], max)
       /\ IF store_up
          THEN LET current == RedisIncr(rate_count[u]) IN
                 /\ rate_count' = [rate_count EXCEPT ![u] = current]
                 /\ hits' = [hits EXCEPT ![u] = @ + 1]
                 /\ IF current = 1
                    THEN /\ pc' = [pc EXCEPT ![r] = "expire"]
                         /\ UNCHANGED <<out, admitted, win_left, win_seen,
                                        REQUEST_COUNT>>
                    ELSE /\ Decide(r, current)
                         /\ MeetLimiter(u)
          ELSE /\ Respond(r, HTTPException(500))
               /\ Count(r, 500)
               /\ UNCHANGED <<rate_count, hits, admitted, win_left, win_seen>>
  /\ UNCHANGED <<ws_vars, started, redis_client, store_up, now, rate_ttl, req, calls,
                 http, upstream, reply, health_vars>>

\* await redis_client.expire(key, 60), reached with current = 1
Expire(r) ==
  /\ pc[r] = "expire"
  /\ LET u == req[r].user.username IN
       /\ MeetLimiter(u)
       /\ IF store_up
          THEN /\ rate_ttl' = [rate_ttl EXCEPT ![u] = rate_window]
               /\ Decide(r, 1)
          ELSE /\ Respond(r, HTTPException(500))
               /\ Count(r, 500)
               /\ UNCHANGED <<rate_ttl, admitted>>
  /\ UNCHANGED <<ws_vars, started, redis_client, store_up, now, rate_count, req, calls,
                 hits, http, upstream, reply, health_vars>>

\* what client.request does: the backend's response, httpx.TimeoutException,
\* or another httpx.RequestError
BackendResults ==
  {[kind |-> "response", status |-> s] : s \in BackendStatuses}
  \cup {[kind |-> "TimeoutException", status |-> 0],
        [kind |-> "RequestError", status |-> 0],
        [kind |-> "Exception", status |-> 0]}

\* variant: every failure of the backend call is a 502
proxy_outcome_all_502(result) ==
  IF result.kind = "response" THEN BackendResponse(result.status)
  ELSE HTTPException(502)

\* variant: an exception that proxy_request does not catch reaches the
\* caller as it is
proxy_outcome_unhandled(result) ==
  IF result.kind = "response" THEN BackendResponse(result.status)
  ELSE IF result.kind = "TimeoutException" THEN HTTPException(504)
  ELSE IF result.kind = "RequestError" THEN HTTPException(502)
  ELSE [kind |-> result.kind, status |-> 0]

\* proxy_request: the response is returned, a timeout raises
\* HTTPException(504), any other httpx.RequestError HTTPException(502);
\* any other exception leaves proxy_request and the except Exception of
\* proxy_all_requests raises HTTPException(500) in its place
proxy_outcome(result) ==
  IF result.kind = "response" THEN BackendResponse(result.status)
  ELSE IF result.kind = "TimeoutException" THEN HTTPException(504)
  ELSE IF result.kind = "RequestError" THEN HTTPException(502)
  ELSE HTTPException(500)

\* headers of the backend call: dict(request.headers) without the
\* hop-by-hop names, then the user context if there is a user
OutboundHeaders(lines, user) ==
  LET headers == PopHopByHop(RequestHeadersDict(lines)) IN
    IF user # NoUser
    THEN SetItem(SetItem(headers, "X-User-Tier", user.tier),
                 "X-User-Username", user.username)
    ELSE headers

\* headers of the Response built from the backend's response
ReturnedHeaders(lines) == PopHopByHop(ResponseHeadersDict(lines))

\* proxy_request with the backend behaving as result, and the metrics that
\* proxy_all_requests records when proxy_request returns a response; an
\* HTTPException of proxy_request is re-raised by except HTTPException: raise
proxy_request(r, result) ==
  /\ upstream' = [upstream EXCEPT ![r] =
        [sent |-> OutboundHeaders(http[r].headers, req[r].user),
         result |-> result.kind,
         headers |-> IF result.kind = "response" THEN http[r].backend_headers
                     ELSE <<>>]]
  /\ Respond(r, proxy_outcome(result))
  /\ IF result.kind = "response"
     THEN /\ reply' = [reply EXCEPT ![r].headers =
                         ReturnedHeaders(http[r].backend_headers)]
          /\ Count(r, result.status)
     ELSE IF result.kind = "Exception"
     THEN /\ Count(r, 500)
          /\ UNCHANGED reply
     ELSE UNCHANGED <<reply, REQUEST_COUNT>>

\* variant: the limit is compared after the backend call instead of before
Proxy_limit_after_call(r) ==
  /\ pc[r] = "proxy"
  /\ calls' = [calls EXCEPT ![r] = @ + 1]
  /\ IF /\ req[r].user # NoUser /\ redis_client
        /\ OverLimit(rate_count[req[r].user.username], TierLimit(req[r].user.tier))
     THEN /\ Respond(r, HTTPException(429))
          /\ Count(r, 429)
          /\ UNCHANGED <<upstream, reply>>
     ELSE \E result \in BackendResults : proxy_request(r, result)
  /\ UNCHANGED <<ws_vars, started, redis_client, store_up, now, rate_count, rate_ttl,
                 req, win_left, win_seen, hits, admitted, http, health_vars>>

\* variant: a failed backend call gives the request back to the quota
Proxy_refund_on_failure(r) ==
  /\ pc[r] = "proxy"
  /\ calls' = [calls EXCEPT ![r] = @ + 1]
  /\ \E result \in BackendResults :
       /\ proxy_request(r, result)
       /\ rate_count' =
            IF /\ result.kind # "response" /\ req[r].user # NoUser
               /\ redis_client /\ rate_count[req[r].user.username] > 0
            THEN [rate_count EXCEPT ![req[r].user.username] = @ - 1]
            ELSE rate_count
  /\ UNCHANGED <<ws_vars, started, redis_client, store_up, now, rate_ttl,
                 req, win_left, win_seen, hits, admitted, http, health_vars>>

\* the step of proxy_all_requests from the call of proxy_request to the
\* end of the handler: one client.request to the backend
Proxy(r) ==
  /\ pc[r] = "proxy"
  /\ calls' = [calls EXCEPT ![r] = @ + 1]
  /\ \E result \in BackendResults : proxy_request(r, result)
  /\ UNCHANGED <<ws_vars, started, redis_client, store_up, now, rate_count, rate_ttl,
                 req, win_left, win_seen, hits, admitted, http, health_vars>>

\* the coroutine is cancelled at a suspension point (the caller went away):
\* CancelledError is not an Exception, nothing more of the handler runs
Cancel(r) ==
  /\ pc[r] \in {"limit", "expire", "proxy"}
  /\ pc' = [pc EXCEPT ![r] = "idle"]
  /\ req' = [req EXCEPT ![r].user = NoUser]
  /\ IF pc[r] = "expire" THEN MeetLimiter(req[r].user.username)
     ELSE UNCHANGED <<win_left, win_seen>>
  /\ UNCHANGED <<ws_vars, started, redis_client, store_up, now, rate_count, rate_ttl,
                 out, calls, hits, admitted, http_vars, health_vars>>

\* the response has been sent; the slot serves the next request
Finish(r) ==
  /\ pc[r] = "done"
  /\ pc' = [pc EXCEPT ![r] = "idle"]
  /\ req' = [req EXCEPT ![r].user = NoUser]
  /\ out' = [out EXCEPT ![r] = NoOut]
  /\ calls' = [calls EXCEPT ![r] = 0]
  /\ upstream' = [upstream EXCEPT ![r] = NoUpstream]
  /\ reply' = [reply EXCEPT ![r] = NoReply]
  /\ REQUEST_COUNT' = [REQUEST_COUNT EXCEPT ![r] = <<>>]
  /\ UNCHANGED <<ws_vars, started, redis_client, store_up, now, rate_count, rate_ttl,
                 win_left, win_seen, hits, admitted, http, health_vars>>

\* what a step of an endpoint of the gateway itself leaves alone
LocalUnchanged ==
  UNCHANGED <<ws_vars, started, redis_client, store_up, now, rate_count, rate_ttl, req,
              calls, win_left, win_seen, hits, admitted, http, upstream,
              REQUEST_COUNT, health_vars>>

\* variant: the endpoint reports its own status field
health_check_own_status(r) ==
  /\ started /\ pc[r] = "idle"
  /\ Route(http[r].method, http[r].path) = "health_check"
  /\ Respond(r, LocalResponse(200))
  /\ reply' = [reply EXCEPT ![r].backend_status = "healthy",
                            ![r].polls_failed = failed_polls]
  /\ LocalUnchanged

\* GET /health: HealthResponse(..., backend_status=backend_status)
health_check(r) ==
  /\ started /\ pc[r] = "idle"
  /\ Route(http[r].method, http[r].path) = "health_check"
  /\ Respond(r, LocalResponse(200))
  /\ reply' = [reply EXCEPT ![r].backend_status = backend_status,
                            ![r].polls_failed = failed_polls]
  /\ LocalUnchanged

\* GET /metrics: generate_latest()
metrics(r) ==
  /\ started /\ pc[r] = "idle"
  /\ Route(http[r].method, http[r].path) = "metrics"
  /\ Respond(r, LocalResponse(200))
  /\ UNCHANGED reply
  /\ LocalUnchanged

\* POST /auth/login: a token, or HTTPException(401)
login(r) ==
  /\ started /\ pc[r] = "idle"
  /\ Route(http[r].method, http[r].path) = "login"
  /\ \E outcome \in {LocalResponse(200), HTTPException(401)} : Respond(r, outcome)
  /\ UNCHANGED reply
  /\ LocalUnchanged

\* no route has the method: the router answers 405
MethodNotAllowed(r) ==
  /\ started /\ pc[r] = "idle"
  /\ Route(http[r].method, http[r].path) = "method_not_allowed"
  /\ Respond(r, HTTPException(405))
  /\ UNCHANGED reply
  /\ LocalUnchanged

(* --------------------------- the health poll -------------------------- *)
\* what client.get(.../health) of a probe meets: a response, or an
\* exception (connection refused, the 5 s timeout, ...)
ProbeResults ==
  {[kind |-> "response", status |-> 200], [kind |-> "response", status |-> 503],
   [kind |-> "exception", status |-> 0]}

\* variant: a response other than 200 is reported by another word
check_backend_health_degraded(probe) ==
  IF probe.kind = "response"
  THEN IF probe.status = 200 THEN "healthy" ELSE "degraded"
  ELSE "unreachable"

\* check_backend_health: 200 is healthy, another response unhealthy, and
\* except Exception gives unreachable
check_backend_health(probe) ==
  IF probe.kind = "response"
  THEN IF probe.status = 200 THEN "healthy" ELSE "unhealthy"
  ELSE "unreachable"

\* variant: an exception of the probe ends the loop
update_backend_status_stops ==
  /\ poll_pc = "check"
  /\ \E probe \in ProbeResults :
       /\ last_probe' = probe
       /\ IF probe.kind = "exception"
          THEN /\ poll_pc' = "off"
               /\ failed_polls' = Min(failed_polls + 1, MaxFailed)
               /\ UNCHANGED backend_status
          ELSE /\ poll_pc' = "sleep"
               /\ failed_polls' = 0
               /\ backend_status' = check_backend_health(probe)
  /\ UNCHANGED <<ws_vars, started, redis_client, store_up, now, rate_count, rate_ttl,
                 pc, req, out, calls, win_left, win_seen, hits, admitted,
                 http_vars>>

\* backend_status = await check_backend_health(), then asyncio.sleep(30)
update_backend_status ==
  /\ poll_pc = "check"
  /\ \E probe \in ProbeResults :
       /\ backend_status' = check_backend_health(probe)
       /\ last_probe' = probe
       /\ failed_polls' = IF probe.kind = "exception"
                          THEN Min(failed_polls + 1, MaxFailed) ELSE 0
  /\ poll_pc' = "sleep"
  /\ UNCHANGED <<ws_vars, started, redis_client, store_up, now, rate_count, rate_ttl,
                 pc, req, out, calls, win_left, win_seen, hits, admitted,
                 http_vars>>

\* asyncio.sleep(30) is over: the loop goes round
PollWake ==
  /\ poll_pc = "sleep"
  /\ poll_pc' = "check"
  /\ UNCHANGED <<ws_vars, started, redis_client, store_up, now, rate_count, rate_ttl,
                 pc, req, out, calls, win_left, win_seen, hits, admitted,
                 http_vars, backend_status, last_probe, failed_polls>>

(* ------------------------- WebSocketProxy.connect --------------------- *)
\* what the backend answers the GET of client.stream with: a response with
\* status 101, a response with another status, or no response (the
\* request raises)
UpgradeAnswers ==
  {[kind |-> "response", status |-> 101], [kind |-> "response", status |-> 400],
   [kind |-> "exception", status |-> 0]}

\* where connect is suspended while the connection is registered
Registered == {"stream", "send", "closing"}

\* what a step of a WebSocket connection leaves alone
WsUnchanged ==
  UNCHANGED <<started, redis_client, store_up, now, rate_count, rate_ttl, pc,
              req, out, calls, win_left, win_seen, hits, admitted, http_vars,
              health_vars>>

\* variant: the finally block leaves the gauge alone
Finally_no_dec(c, conn) ==
  /\ ws' = [ws EXCEPT ![c] = [conn EXCEPT !.pc = "returned",
                                          !.backend_open = FALSE]]
  /\ active_connections' = SelectSeq(active_connections, LAMBDA w : w # c)
  /\ UNCHANGED ACTIVE_CONNECTIONS

\* the async with blocks are left, which closes the backend leg, and the
\* finally block runs: active_connections.remove, ACTIVE_CONNECTIONS.dec()
Finally(c, conn) ==
  /\ ws' = [ws EXCEPT ![c] = [conn EXCEPT !.pc = "returned",
                                          !.backend_open = FALSE,
                                          !.decs = @ + 1]]
  /\ active_connections' = SelectSeq(active_connections, LAMBDA w : w # c)
  /\ ACTIVE_CONNECTIONS' = ACTIVE_CONNECTIONS - 1

\* await websocket.accept() returns; append; ACTIVE_CONNECTIONS.inc(); the
\* GET to backend_ws_url is sent with X-User-Tier
WsAccept(c) ==
  /\ ws[c].pc = "idle"
  /\ \E user \in {NoUser, TokenUser("alice")} :
       ws' = [ws EXCEPT ![c] =
                [@ EXCEPT !.pc = "stream", !.client_open = TRUE,
                          !.incs = @ + 1,
                          !.tier_header = IF user = NoUser THEN "anonymous"
                                          ELSE user.tier]]
  /\ active_connections' = Append(active_connections, c)
  /\ ACTIVE_CONNECTIONS' = ACTIVE_CONNECTIONS + 1
  /\ WsUnchanged

\* client.stream answers.  Status 101: _handle_websocket_communication
\* runs, which is pass, and the blocks are left.  Another status: send_text
\* is awaited.  An exception: caught and logged, the blocks are left.
WsStream(c) ==
  /\ ws[c].pc = "stream"
  /\ \E answer \in UpgradeAnswers :
       ws' = [ws EXCEPT ![c] =
                [@ EXCEPT !.answer = answer,
                          !.backend_open = answer.kind = "response",
                          !.relayed = answer.kind = "response"
                                      /\ answer.status = 101,
                          !.pc = IF answer.kind = "response"
                                    /\ answer.status # 101
                                 THEN "send" ELSE "closing"]]
  /\ UNCHANGED <<active_connections, ACTIVE_CONNECTIONS>>
  /\ WsUnchanged

\* await websocket.send_text("WebSocket upgrade failed"), then return; if
\* the client is gone the send raises, which is caught and logged
WsSend(c) ==
  /\ ws[c].pc = "send"
  /\ ws' = [ws EXCEPT ![c] = [@ EXCEPT !.error_frame = ws[c].client_open,
                                       !.pc = "closing"]]
  /\ UNCHANGED <<active_connections, ACTIVE_CONNECTIONS>>
  /\ WsUnchanged

\* the blocks are left and connect returns
WsExit(c) ==
  /\ ws[c].pc = "closing"
  /\ Finally(c, ws[c])
  /\ WsUnchanged

\* the task is cancelled where it is suspended: CancelledError is not an
\* Exception, only the finally block handles it
WsCancel(c) ==
  /\ ws[c].pc \in Registered
  /\ Finally(c, [ws[c] EXCEPT !.cancelled = TRUE])
  /\ WsUnchanged

\* websocket_endpoint has returned: the server closes the connection
WsFinish(c) ==
  /\ ws[c].pc = "returned"
  /\ ws' = [ws EXCEPT ![c] = [@ EXCEPT !.pc = "closed", !.client_open = FALSE]]
  /\ UNCHANGED <<active_connections, ACTIVE_CONNECTIONS>>
  /\ WsUnchanged

\* the client goes away; nothing in connect reads from it
ClientDisconnect(c) ==
  /\ ws[c].pc \in Registered /\ ws[c].client_open
  /\ ws' = [ws EXCEPT ![c] = [@ EXCEPT !.client_open = FALSE,
                                       !.client_left = TRUE]]
  /\ UNCHANGED <<active_connections, ACTIVE_CONNECTIONS>>
  /\ WsUnchanged

\* both legs are open after a 101
BothLegsOpen(c) == ws[c].relayed /\ ws[c].client_open /\ ws[c].backend_open

\* the client sends a frame; nothing in connect receives it
ClientSend(c) ==
  /\ BothLegsOpen(c) /\ ws[c].client_sent < MaxFrames
  /\ ws' = [ws EXCEPT ![c] = [@ EXCEPT !.client_sent = @ + 1]]
  /\ UNCHANGED <<active_connections, ACTIVE_CONNECTIONS>>
  /\ WsUnchanged

\* the backend sends a frame; nothing in connect reads the response
BackendSend(c) ==
  /\ BothLegsOpen(c) /\ ws[c].backend_sent < MaxFrames
  /\ ws' = [ws EXCEPT ![c] = [@ EXCEPT !.backend_sent = @ + 1]]
  /\ UNCHANGED <<active_connections, ACTIVE_CONNECTIONS>>
  /\ WsUnchanged

(* --------------------------- specifications --------------------------- *)
\* the gateway serving the callers R, counters followed from an empty key
\* up to max
Serve(R, max) ==
  \/ Startup
  \/ StoreFail
  \/ StoreRecover
  \/ Tick
  \/ \E r \in R : Authenticate(r)
  \/ \E r \in R : Incr(r, max)
  \/ \E r \in R : Expire(r)
  \/ \E r \in R : Proxy(r)
  \/ \E r \in R : Cancel(r)
  \/ \E r \in R : Finish(r)

\* concurrent requests of callers with a free-tier API key or no credential,
\* the store holding no counter at the start
Init ==
  /\ InitWith({}, Reqs, {NoKey, "k_free"}, {NoToken})
  /\ InitHttp(Reqs, {"GET"}, {"v1/status"}, {<<>>}, {<<>>})

Next == Serve(Reqs, MaxCount)

Spec == Init /\ [][Next]_vars

\* one caller, with any credentials
InitAuth ==
  /\ InitWith({}, {"r1"}, AllKeys, AllTokens)
  /\ InitHttp({"r1"}, {"GET"}, {"v1/status"}, {<<>>}, {<<>>})

NextAuth == Serve({"r1"}, MaxOver)

SpecAuth == InitAuth /\ [][NextAuth]_vars

\* one caller of another tier, its counter near the limit at the start
InitTiers ==
  /\ InitWith({"alice", "api_key_e", "api_key_g"}, {"r1"},
              {NoKey, "k_ent", "k_gold"}, {NoToken, "t_alice"})
  /\ InitHttp({"r1"}, {"GET"}, {"v1/status"}, {<<>>}, {<<>>})

NextTiers == Serve({"r1"}, MaxOver)

SpecTiers == InitTiers /\ [][NextTiers]_vars

\* one caller with a free-tier API key or no credential, with any header
\* lines, answered by the backend with any header lines
InitProxy ==
  /\ InitWith({"api_key_a"}, {"r1"}, {NoKey, "k_free"}, {NoToken})
  /\ InitHttp({"r1"}, {"GET"}, {"v1/status"},
              HeaderLists(InboundLines, MaxHeaders),
              HeaderLists(BackendLines, MaxHeaders))

NextProxy == Serve({"r1"}, MaxOver)

SpecProxy == InitProxy /\ [][NextProxy]_vars

\* one caller with any method and path, the endpoints of the gateway itself
\* and the health poll
InitRoutes ==
  /\ InitWith({}, {"r1"}, {NoKey, "k_free"}, {NoToken})
  /\ InitHttp({"r1"}, Methods, Paths, {<<>>}, {<<>>})

NextRoutes ==
  \/ Serve({"r1"}, MaxOver)
  \/ health_check("r1")
  \/ metrics("r1")
  \/ login("r1")
  \/ MethodNotAllowed("r1")
  \/ update_backend_status
  \/ PollWake

SpecRoutes == InitRoutes /\ [][NextRoutes]_vars

\* The same with the scheduling of the poll task: the event loop resumes the
\* task when its sleep of 30 s is over, and a probe ends with a response or,
\* after the timeout of 5 s at the latest, with an exception.
SpecHealth ==
  SpecRoutes /\ WF_vars(Startup) /\ WF_vars(update_backend_status)
             /\ WF_vars(PollWake)

\* two callers, each with the free-tier API key named a, a bearer token whose
\* subject is the string api_key_a, both or neither
InitClash ==
  /\ InitWith({}, Reqs, {NoKey, "k_free"}, {NoToken, "t_clash"})
  /\ InitHttp(Reqs, {"GET"}, {"v1/status"}, {<<>>}, {<<>>})

NextClash == Serve(Reqs, MaxOver)

SpecClash == InitClash /\ [][NextClash]_vars

\* The WebSocket endpoint alone.  The event loop resumes connect when the
\* backend has answered or the request has failed (httpx gives up after its
\* default timeout), when the frame is sent and when the blocks are left,
\* and the server closes the connection when the endpoint has returned.
InitWs ==
  /\ InitWith({}, {}, {NoKey}, {NoToken})
  /\ InitHttp({}, {}, {}, {}, {})

NextWs ==
  \E c \in Conns :
    \/ WsAccept(c)
    \/ WsStream(c)
    \/ WsSend(c)
    \/ WsExit(c)
    \/ WsCancel(c)
    \/ WsFinish(c)
    \/ ClientDisconnect(c)
    \/ ClientSend(c)
    \/ BackendSend(c)

SpecWs ==
  /\ InitWs /\ [][NextWs]_vars
  /\ \A c \in Conns : /\ WF_vars(WsStream(c)) /\ WF_vars(WsSend(c))
                      /\ WF_vars(WsExit(c)) /\ WF_vars(WsFinish(c))

TypeOK ==
  /\ started \in BOOLEAN /\ redis_client \in BOOLEAN /\ store_up \in BOOLEAN
  /\ \A u \in Usernames : rate_count[u] >= 0 /\ rate_ttl[u] \in 0..rate_window
  /\ \A r \in Reqs : pc[r] \in {"idle", "limit", "expire", "proxy", "done"}

(* ------------------------ vocabulary of the claims -------------------- *)
\* request r leaves the state at in this step and is not cancelled
Leaves(r, at) == pc[r] = at /\ pc'[r] # at /\ pc'[r] # "idle"

\* the stored record of the API key that r presents, if it decodes
RecordOf(r) ==
  {api_key_records[k] : k \in {k \in DOMAIN api_key_records \cap {req[r].api_key} :
                                 api_key_records[k].decodes}}

\* r is authenticated in this step and its API-key lookup reaches the store
LooksUp(r) == Leaves(r, "idle") /\ redis_client /\ store_up

Unauthorized(outcome) == outcome = HTTPException(401)
RateLimitExceeded(outcome) == outcome = HTTPException(429)

\* tokens that do not verify, are expired or carry no subject
BadTokens ==
  {t \in DOMAIN bearer_tokens :
     \/ ~bearer_tokens[t].sig_ok
     \/ bearer_tokens[t].expired
     \/ bearer_tokens[t].sub = NoneOpt}

\* tokens that verify, are not expired and carry a subject
GoodTokens == DOMAIN bearer_tokens \ BadTokens

\* the backend was called for r and answered or failed
Called(r) == upstream[r].result # "none"

\* the header lines of a list that are not hop-by-hop
EndToEnd(lines) == SelectSeq(lines, LAMBDA line : line[1] \notin hop_by_hop_headers)

\* every line of lines is among the lines of wire
AllAmong(lines, wire) ==
  \A i \in DOMAIN lines : \E j \in DOMAIN wire : wire[j] = lines[i]

\* the names of the user context headers, as a peer reads them
ContextNames == {"x-user-tier", "x-user-username"}

ContextLines(wire) == SelectSeq(wire, LAMBDA line : line[1] \in ContextNames)

\* the paths of the endpoints that the spec reserves
ReservedPaths == {"health", "metrics"}

\* the methods of the proxy route
ProxiedMethods == routes[Len(routes)].methods

\* the outcomes of the error taxonomy and the backend's responses
Taxonomy ==
  {BackendResponse(s) : s \in BackendStatuses}
  \cup {HTTPException(s) : s \in {401, 429, 504, 502, 500}}

\* r presents no credential at all
Anonymous(r) == req[r].api_key = NoKey /\ req[r].token = NoToken

\* the limiter decides about r in this step
Decided(r) == pc[r] \in {"limit", "expire"} /\ pc'[r] \in {"proxy", "done"}

\* the principal that r is authenticated as: the kind of the credential
\* that gave the user, and the user's identifier
Principal(r) ==
  [kind |-> IF \E rec \in RecordOf(r) : req[r].user = APIKeyUser(rec)
            THEN "api_key" ELSE "bearer",
   identifier |-> req[r].user.username]

\* the key of u expires or is about to be given its expiry
ExpiryPending(u) ==
  \/ rate_ttl[u] > 0
  \/ \E q \in Reqs : pc[q] = "expire" /\ req[q].user.username = u

\* the lookup of the API key that r presents fails in this state: there is
\* no store client, the read raises, or the stored value does not decode
LookupFails(r) ==
  /\ req[r].api_key # NoKey
  /\ \/ ~redis_client
     \/ ~store_up
     \/ /\ req[r].api_key \in DOMAIN api_key_records
        /\ ~api_key_records[req[r].api_key].decodes

\* the user of the bearer token that r presents, if the token is good
BearerUserOf(r) ==
  IF req[r].token \in GoodTokens
  THEN [username |-> CHOOSE s \in bearer_tokens[req[r].token].sub : TRUE,
        tier |-> "pro"]
  ELSE NoUser

\* the health endpoint answers r in this step
HealthAnswers(r) ==
  /\ pc[r] = "idle" /\ pc'[r] = "done"
  /\ Route(http[r].method, http[r].path) = "health_check"

\* a probe of the poll task completes in this step
ProbeCompletes == poll_pc = "check" /\ poll_pc' # "check"

(* ------------------------------- claims ------------------------------- *)
\* C1 (stated as claimed): when the limiter counts a request of a principal
\* with tier limit L as the n-th of its 60-second window, the request is
\* admitted if n <= L and rejected with 429 if n = L + 1, and the first
\* request of a new window sees the counter value 1.  (Not required while
\* the request that created the counter is still about to set its expiry.)
C1_WindowQuota ==
  [][\A r \in Reqs :
       /\ Leaves(r, "limit") /\ store_up
       /\ ~\E q \in Reqs : pc[q] = "expire" /\ req[q].user.username = req[r].user.username
       =>
         LET u == req[r].user.username
             L == TierLimit(req[r].user.tier)
             n == IF win_left[u] = 0 THEN 1 ELSE win_seen[u] + 1
         IN /\ n <= L => pc'[r] \in {"expire", "proxy"}
            /\ n = L + 1 => RateLimitExceeded(out'[r])
            /\ n = 1 => rate_count'[u] = 1]_vars

\* C2 (stated as claimed): a request whose API key has a stored record with
\* enabled = false ends authentication with 401, whatever token it carries.
C2_DisabledKeyUnauthorized ==
  [][\A r \in Reqs :
       LooksUp(r) /\ (\E rec \in RecordOf(r) : ~rec.enabled)
         => Unauthorized(out'[r])]_vars

\* C3 (stated as claimed): a request whose API key has a stored record with
\* expires_at in the past ends authentication with 401, whatever the
\* record's enabled flag and whatever token it carries.
C3_ExpiredKeyUnauthorized ==
  [][\A r \in Reqs :
       LooksUp(r) /\ (\E rec \in RecordOf(r) : KeyExpired(rec))
         => Unauthorized(out'[r])]_vars

\* C4 (stated as claimed): a request without API key whose bearer token does
\* not verify, is expired or has no subject ends authentication with 401.
C4_BadTokenUnauthorized ==
  [][\A r \in Reqs :
       Leaves(r, "idle") /\ req[r].api_key = NoKey /\ req[r].token \in BadTokens
         => Unauthorized(out'[r])]_vars

\* C5: a request rejected with RateLimitExceeded has issued no backend call.
C5_RejectedNeverForwarded ==
  \A r \in Reqs : RateLimitExceeded(out[r]) => calls[r] = 0

C5_Witness ==
  \E r \in Reqs : RateLimitExceeded(out[r]) /\ pc[r] = "done"

\* C6: of the concurrent requests of one username at most one holds the
\* counter value 1 of a window, the counter equals the number of INCR
\* commands executed on it, and the requests admitted under a tier within
\* one window never exceed that tier's limit.
C6_AtomicIncrement ==
  \A u \in Usernames :
    /\ Cardinality({r \in Reqs : pc[r] = "expire" /\ req[r].user.username = u}) <= 1
    /\ hits[u] = rate_count[u]
    /\ \A t \in Tiers : admitted[u][t] <= TierLimit(t)

\* two requests of one username in flight, one admitted as the last of the
\* window and the other rejected
C6_Witness ==
  \E r1 \in Reqs, r2 \in Reqs :
    /\ r1 # r2
    /\ req[r1].user = req[r2].user /\ req[r1].user # NoUser
    /\ pc[r1] = "proxy" /\ RateLimitExceeded(out[r2])
    /\ admitted[req[r1].user.username][req[r1].user.tier]
         = TierLimit(req[r1].user.tier)

\* C7 (stated as claimed): a rate counter with a positive count has its
\* expiry pending, or the request that created it is about to set it.
C7_CounterHasExpiry ==
  \A u \in Usernames :
    rate_count[u] > 0 /\ rate_ttl[u] = 0 =>
      \E r \in Reqs : pc[r] = "expire" /\ req[r].user.username = u

\* C8: the INCR of a request adds exactly one to the counter of its user, no
\* later step of that request (rejection, backend timeout or failure,
\* response) changes any counter, and a counter never goes down except when
\* its key expires.
C8_IncrementStands ==
  [][/\ \A r \in Reqs :
          /\ Leaves(r, "limit") /\ store_up =>
               rate_count' = [rate_count EXCEPT ![req[r].user.username] = @ + 1]
          /\ pc[r] \in {"expire", "proxy", "done"} /\ pc'[r] # pc[r] =>
               rate_count' = rate_count
     /\ \A u \in Usernames :
          \/ rate_count'[u] \in {rate_count[u], rate_count[u] + 1}
          \/ Expiring(u) /\ rate_count'[u] = 0]_vars

\* a counted request whose backend call timed out or failed
C8_Witness ==
  \E r \in Reqs :
    /\ out[r] \in {HTTPException(504), HTTPException(502)}
    /\ req[r].user # NoUser /\ redis_client
    /\ rate_count[req[r].user.username] > 0

\* C9 (stated as claimed): a request that meets the limiter while the store
\* does not answer is not blocked: it goes on to the backend call.
C9_FailOpen ==
  [][\A r \in Reqs :
       (Leaves(r, "limit") \/ Leaves(r, "expire")) /\ ~store_up
         => pc'[r] = "proxy"]_vars

C11_TokenTierFromClaims ==
  [][\A r \in Reqs :
       Leaves(r, "idle") /\ req[r].api_key = NoKey /\ req[r].token \in GoodTokens
         => LET claims == bearer_tokens[req[r].token] IN
              req'[r].user.tier = IF claims.tier = NoneOpt THEN "free"
                                  ELSE CHOOSE t \in claims.tier : TRUE]_vars

\* C12: when a request carries an API key whose record is read, enabled and
\* unexpired, and also a bearer token that verifies, the user is the API
\* key's (api_key_{name} with the record's tier) and not the token's.
C12_ApiKeyFirst ==
  [][\A r \in Reqs : \A rec \in RecordOf(r) :
       /\ LooksUp(r) /\ req[r].token \in GoodTokens
       /\ rec.enabled /\ ~KeyExpired(rec)
       => /\ pc'[r] # "done"
          /\ req'[r].user = [username |-> "api_key_" \o rec.name, tier |-> rec.tier]
          /\ req'[r].user # get_current_user(req[r].token).user]_vars

\* a request with a valid API key and a valid token, past authentication
\* as the API key's user
C12_Witness ==
  \E r \in Reqs : \E rec \in RecordOf(r) :
    /\ pc[r] \in {"limit", "expire", "proxy"}
    /\ req[r].token \in GoodTokens
    /\ req[r].user = [username |-> "api_key_" \o rec.name, tier |-> rec.tier]

\* C13: a request with an API key that has no record in the store ends
\* authentication exactly as the same request without the API key does:
\* same user or none, same exception or none.
C13_AbsentKeyAsNoKey ==
  [][\A r \in Reqs :
       /\ Leaves(r, "idle")
       /\ req[r].api_key # NoKey /\ req[r].api_key \notin DOMAIN api_key_records
       => LET res == authenticate_request(NoKey, req[r].token) IN
            /\ req'[r].user = res.user
            /\ IF res.raised # 0 THEN out'[r] = HTTPException(res.raised)
               ELSE pc'[r] # "done"]_vars

\* a request with an unknown API key, past authentication as its token's user
C13_Witness ==
  \E r \in Reqs :
    /\ req[r].api_key # NoKey /\ req[r].api_key \notin DOMAIN api_key_records
    /\ redis_client /\ store_up
    /\ pc[r] \in {"limit", "expire", "proxy"}
    /\ req[r].user = get_current_user(req[r].token).user

\* C14: a request whose API key has a record that is disabled, or expired
\* at the time of the lookup, never leaves authentication with the user
\* api_key_{name} of that record.
C14_NoUserFromDeadRecord ==
  [][\A r \in Reqs : \A rec \in RecordOf(r) :
       /\ Leaves(r, "idle")
       /\ ~rec.enabled \/ \E t \in rec.expires_at : now > t
       => req'[r].user.username # "api_key_" \o rec.name]_vars

\* a request with a disabled record that went through authentication and
\* goes on to the limiter as its token's user
C14_Witness ==
  \E r \in Reqs : \E rec \in RecordOf(r) :
    /\ ~rec.enabled
    /\ pc[r] = "limit" /\ req[r].user # NoUser

\* C15 (stated as claimed): no hop-by-hop header of the request is on the
\* backend call and none of the backend's response is on the response
\* returned, and every other header line of the request is on the backend
\* call and every other header line of the backend's response is on the
\* response returned, unchanged.
C15_HopByHopStripped ==
  \A r \in Reqs : Called(r) =>
    LET sent == OnWire(upstream[r].sent)
        returned == OnWire(reply[r].headers)
    IN /\ \A i \in DOMAIN sent : sent[i][1] \notin hop_by_hop_headers
       /\ \A i \in DOMAIN returned : returned[i][1] \notin hop_by_hop_headers
       /\ AllAmong(EndToEnd(http[r].headers), sent)
       /\ upstream[r].result = "response" =>
            AllAmong(EndToEnd(upstream[r].headers), returned)

\* C16 (stated as claimed): the user context header lines of a backend call
\* are exactly the tier and the username of the request's user, and there
\* are none when the request has no user.
C16_ContextNotClientControlled ==
  \A r \in Reqs : Called(r) =>
    ContextLines(OnWire(upstream[r].sent)) =
      IF req[r].user # NoUser
      THEN << <<"x-user-tier", req[r].user.tier>>,
              <<"x-user-username", req[r].user.username>> >>
      ELSE <<>>

\* C17: a request whose backend call timed out ends with 504, one whose
\* backend call failed otherwise ends with 502, these are the only sources
\* of 504 and 502, and no request issues more than one backend call.
C17_BackendFailureOnce ==
  \A r \in Reqs :
    /\ calls[r] <= 1
    /\ Called(r) => calls[r] = 1
    /\ upstream[r].result = "TimeoutException" <=> out[r] = HTTPException(504)
    /\ upstream[r].result = "RequestError" <=> out[r] = HTTPException(502)

\* a request ended by a backend timeout
C17_Witness ==
  \E r \in Reqs :
    pc[r] = "done" /\ upstream[r].result = "TimeoutException" /\ calls[r] = 1

\* C18 (stated as claimed): a request that the proxy route has finished
\* (with the backend's response, 429, 502, 504 or 500) has incremented
\* REQUEST_COUNT exactly once, under its final status code.
C18_EveryOutcomeCounted ==
  \A r \in Reqs :
    /\ pc[r] = "done"
    /\ Route(http[r].method, http[r].path) = "proxy_all_requests"
    /\ ~Unauthorized(out[r])
    => REQUEST_COUNT[r] = <<out[r].status>>

\* C19 (stated as claimed): a request to a reserved path issues no backend
\* call, and a request with a method of the proxy route to a path that no
\* endpoint of the gateway has is not answered by the gateway itself.
C19_ReservedPathsLocal ==
  \A r \in Reqs :
    /\ http[r].path \in ReservedPaths => calls[r] = 0
    /\ /\ pc[r] = "done"
       /\ http[r].path \notin {routes[i].path : i \in DOMAIN routes}
       /\ http[r].method \in ProxiedMethods
       => out[r].kind # "local"

\* C20 (stated as claimed): from the start on backend_status is one of
\* healthy, unhealthy, unreachable, and only a step of the poll task
\* changes it.
C20_HealthState ==
  [][/\ backend_status \in HealthStates
     /\ backend_status' \in HealthStates
     /\ backend_status' # backend_status =>
          poll_pc = "check" /\ poll_pc' = "sleep"]_vars

\* C20 (amended): backend_status is unknown until the first poll completes
\* and from then on always one of healthy, unhealthy, unreachable; only a
\* step of the poll task changes it, and the health endpoint reports the
\* value it reads without changing it.
C20_HealthStateAfterFirstPoll ==
  [][/\ backend_status \in HealthStates \cup {"unknown"}
     /\ backend_status' \in HealthStates \cup {"unknown"}
     /\ backend_status \in HealthStates => backend_status' \in HealthStates
     /\ backend_status' # backend_status =>
          /\ poll_pc = "check" /\ poll_pc' = "sleep"
          /\ backend_status' \in HealthStates
     /\ \A r \in Reqs :
          reply'[r].backend_status # reply[r].backend_status =>
            /\ backend_status' = backend_status
            /\ reply'[r].backend_status \in {"", backend_status}]_vars

\* the health endpoint has reported a polled state
C20_Witness ==
  \E r \in Reqs :
    /\ pc[r] = "done" /\ out[r] = LocalResponse(200)
    /\ reply[r].backend_status \in HealthStates
    /\ poll_pc = "sleep"

\* C21: while the last three or more polls in a row have failed to reach
\* the backend the health endpoint reports unreachable, and the next poll
\* that meets a 200 response sets the state to healthy, which the health
\* endpoint reports from then on.
C21_UnreachableAfterThreeFailures ==
  [][/\ \A r \in Reqs :
          HealthAnswers(r) =>
            /\ failed_polls >= 3 => reply'[r].backend_status = "unreachable"
            /\ last_probe = [kind |-> "response", status |-> 200] =>
                 reply'[r].backend_status = "healthy"
     /\ /\ ProbeCompletes /\ failed_polls >= 3
        /\ last_probe' = [kind |-> "response", status |-> 200]
        => backend_status' = "healthy" /\ failed_polls' = 0]_vars

\* the health endpoint has reported unreachable after three failed polls and
\* a later poll has set the state back to healthy
C21_Witness ==
  \E r \in Reqs :
    /\ pc[r] = "done"
    /\ reply[r].backend_status = "unreachable" /\ reply[r].polls_failed = 3
    /\ backend_status = "healthy"

\* C30: a probe that completes, failed or not, leaves the poll task asleep
\* until its next probe and the state equal to the result of that probe
\* (healthy for a 200 response, unhealthy for another response, unreachable
\* for a failure); once started the task never ends, and after every sleep
\* another probe follows.
C30_PollNeverStops ==
  /\ [][ProbeCompletes =>
          /\ poll_pc' = "sleep"
          /\ backend_status' =
               IF last_probe'.kind = "exception" THEN "unreachable"
               ELSE IF last_probe'.status = 200 THEN "healthy"
               ELSE "unhealthy"]_vars
  /\ [](started => poll_pc \in {"check", "sleep"})
  /\ [](last_probe.kind = "exception" => backend_status = "unreachable")
  /\ (poll_pc = "sleep") ~> (poll_pc = "check")
  /\ (poll_pc = "check") ~> (poll_pc = "sleep")

\* a failed probe has been followed by the next probe
C30_Witness ==
  /\ last_probe.kind = "exception" /\ failed_polls = 1
  /\ backend_status = "unreachable"
  /\ poll_pc = "check"

\* C22: a connection is in Relaying only after the backend answered the
\* upgrade with status 101; a connection whose upgrade the backend did not
\* accept, with the client still there and the task not cancelled, has
\* been sent the error frame when connect has returned, and no frame was
\* ever relayed on it.
C22_UpgradeOrErrorFrame ==
  \A c \in Conns :
    /\ ws[c].relayed => ws[c].answer = [kind |-> "response", status |-> 101]
    /\ /\ ws[c].pc \in {"returned", "closed"}
       /\ ws[c].answer \notin {NoProbe, [kind |-> "response", status |-> 101]}
       /\ ~ws[c].client_left /\ ~ws[c].cancelled
       => /\ ws[c].error_frame
          /\ ~ws[c].relayed /\ ws[c].to_backend = 0 /\ ws[c].to_client = 0

\* C23: on a connection that was in Relaying, with the client still there
\* and the task not cancelled, every frame the client sent has been
\* delivered to the backend and every frame the backend sent has been
\* delivered to the client when connect has returned.
C23_BothDirectionsRelayed ==
  \A c \in Conns :
    /\ ws[c].pc \in {"returned", "closed"} /\ ws[c].relayed
    /\ ~ws[c].client_left /\ ~ws[c].cancelled
    => /\ ws[c].to_backend = ws[c].client_sent
       /\ ws[c].to_client = ws[c].backend_sent

\* C24: an accepted connection has incremented the gauge once; when connect
\* has returned, on whichever path, it has decremented it once and the
\* backend leg is closed, and in Closed the client leg is closed too; the
\* gauge equals the number of registered connections and is never
\* negative; and every accepted connection ends in Closed.
C24_GaugeBalanced ==
  /\ [](/\ ACTIVE_CONNECTIONS = Len(active_connections)
        /\ ACTIVE_CONNECTIONS =
             Cardinality({c \in Conns : ws[c].pc \in Registered})
        /\ ACTIVE_CONNECTIONS >= 0
        /\ \A c \in Conns :
             /\ ws[c].pc = "idle" => ws[c].incs = 0 /\ ws[c].decs = 0
             /\ ws[c].pc \in Registered => ws[c].incs = 1 /\ ws[c].decs = 0
             /\ ws[c].pc \in {"returned", "closed"} =>
                  ws[c].incs = 1 /\ ws[c].decs = 1 /\ ~ws[c].backend_open
             /\ ws[c].pc = "closed" => ~ws[c].client_open)
  /\ \A c \in Conns : (ws[c].pc # "idle") ~> (ws[c].pc = "closed")

\* the two connections are closed, one after a failed upgrade and one after
\* a client that went away during an accepted upgrade
C24_Witness ==
  /\ ws["w1"].pc = "closed" /\ ws["w1"].answer.kind = "exception"
  /\ ws["w2"].pc = "closed" /\ ws["w2"].relayed /\ ws["w2"].client_left
  /\ ACTIVE_CONNECTIONS = 0

\* C25: an anonymous request that goes on to the backend while the store
\* client exists has first met the limiter, and no step of an anonymous
\* request changes the counter or the expiry of any principal.
C25_AnonymousAccountedApart ==
  [][\A r \in Reqs :
       /\ Leaves(r, "idle") /\ Anonymous(r) /\ redis_client
          /\ Route(http[r].method, http[r].path) = "proxy_all_requests"
          => pc'[r] = "limit"
       /\ Anonymous(r) /\ pc'[r] # pc[r]
          => rate_count' = rate_count /\ rate_ttl' = rate_ttl]_vars

\* C26: for a principal of an API key whose record sets rate_limit R, the
\* request that the limiter counts as the n-th on the counter is admitted
\* if n <= R and rejected with 429 if n > R.
C26_RecordRateLimit ==
  [][\A r \in Reqs : \A rec \in RecordOf(r) :
       Decided(r) /\ req[r].user = APIKeyUser(rec) /\ store_up
       => LET n == rate_count'[req[r].user.username] IN
            /\ n <= rec.rate_limit => pc'[r] = "proxy"
            /\ n > rec.rate_limit => RateLimitExceeded(out'[r])]_vars

\* C27: a request to the proxy route that has ended has one outcome of the
\* taxonomy; a store error at the counter increment or at the expiry, and
\* an exception of the backend call that is neither a timeout nor a
\* request error, end it with 500.
C27_OutcomeInTaxonomy ==
  /\ [](\A r \in Reqs : pc[r] = "done" => out[r] \in Taxonomy)
  /\ [][\A r \in Reqs :
          /\ Decided(r) /\ ~store_up => out'[r] = HTTPException(500)
          /\ Leaves(r, "proxy") /\ upstream'[r].result = "Exception"
             => out'[r] = HTTPException(500)]_vars

\* a request has ended with 500 after an exception of the backend call
\* that proxy_request does not catch
C27_Witness ==
  \E r \in Reqs :
    /\ pc[r] = "done" /\ upstream[r].result = "Exception"
    /\ out[r] = HTTPException(500)

\* C28: the INCR of a request authenticated as one principal leaves alone
\* the counter of every request authenticated as a different principal, a
\* bearer-token principal and an API-key principal included.
C28_CountersIndependent ==
  [][\A r, q \in Reqs :
       /\ Leaves(r, "limit")
       /\ req[q].user # NoUser /\ Principal(q) # Principal(r)
       => rate_count'[req[q].user.username] = rate_count[req[q].user.username]]_vars

\* C29: the expiry of a counter changes only when the request that saw the
\* value 1 sets it, from none to the window length, or when time passes; a
\* request that is rejected with 429 leaves the expiry as it is, and is
\* rejected only while the expiry of its counter is pending, so that the
\* principal is admitted again when it has run out.
C29_FixedWindow ==
  [][\A u \in Usernames :
       /\ rate_ttl'[u] # rate_ttl[u] =>
            \/ \E r \in Reqs :
                 /\ Leaves(r, "expire") /\ req[r].user.username = u
                 /\ rate_ttl[u] = 0 /\ rate_ttl'[u] = rate_window
            \/ /\ pc' = pc
               /\ rate_ttl'[u] = Max(rate_ttl[u] - TickSeconds, 0)
       /\ \A r \in Reqs :
            /\ Leaves(r, "limit") /\ req[r].user.username = u
            /\ RateLimitExceeded(out'[r])
            => rate_ttl'[u] = rate_ttl[u] /\ ExpiryPending(u)]_vars

\* C31: a request whose API-key lookup fails (no store client, a read
\* error, or a stored value that does not decode) is not ended by
\* authentication: it goes on as the user of its bearer token if that is
\* good and as anonymous otherwise, never as the principal of the API key.
C31_LookupFailureAsAbsent ==
  [][\A r \in Reqs :
       Leaves(r, "idle") /\ LookupFails(r)
       => /\ pc'[r] # "done" /\ out'[r] = NoOut
          /\ req'[r].user = BearerUserOf(r)]_vars

\* a request with the stored key of a free-tier record and a good token
\* is at the limiter as the token's user: the read of the key had failed
C31_Witness ==
  \E r \in Reqs :
    /\ req[r].api_key = "k_free" /\ req[r].token = "t_alice"
    /\ pc[r] = "limit"
    /\ req[r].user = [username |-> "alice", tier |-> "pro"]

====
